---- MODULE Spec2Model ----
(***************************************************************************)
(* The character ledger of isk/db/character.go: batches of donations or    *)
(* contracts are folded into per-character totals (lifetime and 30 day)    *)
(* and written back to the characters table.                               *)
(*                                                                         *)
(* ISK values are float64 in the source.  Here they are fixed-point        *)
(* integers counting thousandths of an ISK, so round2 (two decimals) is a  *)
(* rounding to the nearest multiple of 10.  Timestamps are small integers; *)
(* 0 is Go's zero time.Time.                                               *)
(***************************************************************************)
EXTENDS Integers, Sequences, FiniteSets, TLC

\* ------------------------------------------------------------------ bounds

\* the longest batch of events handed to one Save* call
MaxBatchLen == 2

\* the number of accumulator applications to one in-memory row (SpecTotals)
MaxOps == 2

\* how many batches follow one another
MaxCalls == 2

\* ------------------------------------------------------------ input domains

\* character IDs
Ids == {1, 2}

\* event timestamps, T1 < T2
Times == {1, 2}

\* donation amounts in thousandths of an ISK: 12.345 (round2 rounds it up)
\* and 0.004 (round2 rounds it down)
Amounts == {12345, 4}

Procs == {1, 2}

\* the caller of the specifications in which calls do not overlap
Callers == {1}

\* ------------------------------------------------------------- data types

\* pq.NullTime
NullTime(t, valid) == [Time |-> t, Valid |-> valid]

\* the zero value of pq.NullTime
NoTime == NullTime(0, FALSE)

\* *Name of an Affiliation: a nil pointer or a name with an ID
NilName == [nil |-> TRUE, ID |-> 0]

Name(id) == [nil |-> FALSE, ID |-> id]

Affiliation(charID, corpID, alliance) ==
    [Character |-> charID, Corporation |-> corpID, Alliance |-> alliance]

\* &CharacterRow{ID: charID}: every other field is Go's zero value
ZeroRow(charID) ==
    [ID |-> charID, CorporationID |-> 0, AllianceID |-> 0,
     Received |-> 0, ReceivedISK |-> 0, Received30 |-> 0, ReceivedISK30 |-> 0,
     Donated |-> 0, DonatedISK |-> 0, Donated30 |-> 0, DonatedISK30 |-> 0,
     LastDonated |-> NoTime, LastReceived |-> NoTime,
     GoodStanding |-> FALSE]

Donation(donator, recipient, amount, ts) ==
    [Donator |-> donator, Recipient |-> recipient, Amount |-> amount,
     Timestamp |-> ts]

Contract(donator, receiver, accepted, amount, ts) ==
    [Donator |-> donator, Receiver |-> receiver, Accepted |-> accepted,
     Amount |-> amount, Timestamp |-> ts]

\* ------------------------------------------------------------ conversions

\* round2: to two decimals, half away from zero (ten thousandths is 0.01)
round2(v) ==
    IF v >= 0 THEN ((v + 5) \div 10) * 10
              ELSE 0 - (((0 - v) + 5) \div 10) * 10

\* time.Time.IsZero
IsZero(t) == t = 0

\* CharacterRow.toCharacter without the standing: the Character gets Go's
\* zero value
toCharacterNoStanding(c) ==
    [ID |-> c.ID, CorporationID |-> c.CorporationID,
     AllianceID |-> c.AllianceID,
     Received |-> c.Received, ReceivedISK |-> round2(c.ReceivedISK),
     Received30 |-> c.Received30, ReceivedISK30 |-> round2(c.ReceivedISK30),
     Donated |-> c.Donated, DonatedISK |-> round2(c.DonatedISK),
     Donated30 |-> c.Donated30, DonatedISK30 |-> round2(c.DonatedISK30),
     LastDonated |-> IF c.LastDonated.Valid THEN c.LastDonated.Time ELSE 0,
     LastReceived |-> IF c.LastReceived.Valid THEN c.LastReceived.Time ELSE 0,
     GoodStanding |-> FALSE]

\* CharacterRow.toCharacter: the read-facing Character (names left empty)
toCharacter(c) ==
    [ID |-> c.ID, CorporationID |-> c.CorporationID,
     AllianceID |-> c.AllianceID,
     Received |-> c.Received, ReceivedISK |-> round2(c.ReceivedISK),
     Received30 |-> c.Received30, ReceivedISK30 |-> round2(c.ReceivedISK30),
     Donated |-> c.Donated, DonatedISK |-> round2(c.DonatedISK),
     Donated30 |-> c.Donated30, DonatedISK30 |-> round2(c.DonatedISK30),
     LastDonated |-> IF c.LastDonated.Valid THEN c.LastDonated.Time ELSE 0,
     LastReceived |-> IF c.LastReceived.Valid THEN c.LastReceived.Time ELSE 0,
     GoodStanding |-> c.GoodStanding]

\* Character.toRow
toRow(c) ==
    [ID |-> c.ID, CorporationID |-> c.CorporationID,
     AllianceID |-> c.AllianceID,
     Received |-> c.Received, ReceivedISK |-> c.ReceivedISK,
     Received30 |-> c.Received30, ReceivedISK30 |-> c.ReceivedISK30,
     Donated |-> c.Donated, DonatedISK |-> c.DonatedISK,
     Donated30 |-> c.Donated30, DonatedISK30 |-> c.DonatedISK30,
     LastDonated |-> NullTime(c.LastDonated, ~IsZero(c.LastDonated)),
     LastReceived |-> NullTime(c.LastReceived, ~IsZero(c.LastReceived)),
     GoodStanding |-> c.GoodStanding]

\* ------------------------------------------------------------- the store

\* the characters table: a function from the IDs that have a row to the row
Put(st, row) ==
    [i \in DOMAIN st \cup {row.ID} |-> IF i = row.ID THEN row ELSE st[i]]

\* executeNamed with StmtCreateCharacter: an INSERT; it fails when the call
\* itself fails (envOK = FALSE) or the key character_id is taken
NewCharacter(st, char, envOK) ==
    IF envOK /\ char.ID \notin DOMAIN st
    THEN [err |-> FALSE, store |-> Put(st, char)]
    ELSE [err |-> TRUE, store |-> st]

\* executeNamed with StmtUpdateCharacter: an UPDATE ... WHERE character_id;
\* it fails when the call itself fails, and changes nothing without a row
updateCharacter(st, char, envOK) ==
    IF envOK
    THEN [err |-> FALSE,
          store |-> IF char.ID \in DOMAIN st THEN Put(st, char) ELSE st]
    ELSE [err |-> TRUE, store |-> st]

\* the outcomes of GetCharacter's calls: none fails, the query fails, or
\* the name resolution (GetNames) fails
Faults == {"none", "query", "names"}

\* GetCharacter: the row of charID as a Character, or an error when the
\* query fails, no row is found, or the names cannot be resolved
GetCharacter(st, charID, fault) ==
    IF fault = "query" THEN [err |-> TRUE, char |-> toCharacter(ZeroRow(charID))]
    ELSE IF charID \notin DOMAIN st
         THEN [err |-> TRUE, char |-> toCharacter(ZeroRow(charID))]
    ELSE IF fault = "names"
         THEN [err |-> TRUE, char |-> toCharacter(ZeroRow(charID))]
    ELSE [err |-> FALSE, char |-> toCharacter(st[charID])]

\* ------------------------------------------------------------ affiliation

Min(S) == CHOOSE x \in S : \A y \in S : x <= y

\* inInt32
inInt32(x, xs) == \E k \in 1..Len(xs) : xs[k] = x

\* getAffiliation without its panic: a character that has no affiliation
\* gets an empty one
getAffiliationNoPanic(charID, affiliations) ==
    LET hits == {k \in 1..Len(affiliations) :
                    affiliations[k].Character = charID}
    IN IF hits = {}
       THEN [panic |-> FALSE, aff |-> Affiliation(charID, 0, NilName)]
       ELSE [panic |-> FALSE, aff |-> affiliations[Min(hits)]]

\* getAffiliation: the first affiliation of charID; panics without one
getAffiliation(charID, affiliations) ==
    LET hits == {k \in 1..Len(affiliations) :
                    affiliations[k].Character = charID}
    IN IF hits = {}
       THEN [panic |-> TRUE, aff |-> Affiliation(charID, 0, NilName)]
       ELSE [panic |-> FALSE, aff |-> affiliations[Min(hits)]]

\* bindAffiliation, given the affiliation found and GetCharacter's result
bindAffiliation(charID, aff, got) ==
    LET row == IF got.err THEN ZeroRow(charID) ELSE toRow(got.char)
        withCorp == [row EXCEPT !.CorporationID = aff.Corporation]
    IN [new |-> got.err,
        row |-> IF ~aff.Alliance.nil
                THEN [withCorp EXCEPT !.AllianceID = aff.Alliance.ID]
                ELSE withCorp]

\* ------------------------------------------------------------ accumulator

\* time.Time.Before
Before(a, b) == a < b

\* the body of addToTotals' inner loop for one row
addToRow(donation, char) ==
    IF char.ID = donation.Donator
    THEN [char EXCEPT
            !.DonatedISK = @ + donation.Amount,
            !.Donated = @ + 1,
            !.DonatedISK30 = @ + donation.Amount,
            !.Donated30 = @ + 1,
            !.LastDonated =
                IF ~@.Valid \/ Before(@.Time, donation.Timestamp)
                THEN NullTime(donation.Timestamp, TRUE) ELSE @]
    ELSE IF char.ID = donation.Recipient
    THEN [char EXCEPT
            !.ReceivedISK = @ + donation.Amount,
            !.Received = @ + 1,
            !.ReceivedISK30 = @ + donation.Amount,
            !.Received30 = @ + 1,
            !.LastReceived =
                IF ~@.Valid \/ Before(@.Time, donation.Timestamp)
                THEN NullTime(donation.Timestamp, TRUE) ELSE @]
    ELSE char

\* addToTotals over one list of rows
addToTotals(donation, chars) ==
    [k \in 1..Len(chars) |-> addToRow(donation, chars[k])]

\* removeFromTotals taking a donation off both sides of a row that is its
\* donator and its recipient
removeFromBothSides(donation, char) ==
    LET d == IF char.ID = donation.Donator
             THEN [char EXCEPT
                     !.DonatedISK30 = @ - donation.Amount,
                     !.Donated30 = @ - 1]
             ELSE char
    IN IF char.ID = donation.Recipient
       THEN [d EXCEPT
               !.ReceivedISK30 = @ - donation.Amount,
               !.Received30 = @ - 1]
       ELSE d

\* the body of removeFromTotals' inner loop for one row
removeFromRow(donation, char) ==
    IF char.ID = donation.Donator
    THEN [char EXCEPT
            !.DonatedISK30 = @ - donation.Amount,
            !.Donated30 = @ - 1]
    ELSE IF char.ID = donation.Recipient
    THEN [char EXCEPT
            !.ReceivedISK30 = @ - donation.Amount,
            !.Received30 = @ - 1]
    ELSE char

\* removeFromTotals over one list of rows
removeFromTotals(donation, chars) ==
    [k \in 1..Len(chars) |-> removeFromRow(donation, chars[k])]

\* a contract seen as the transfer it stands for
asTransfer(contract) ==
    Donation(contract.Donator, contract.Receiver, contract.Amount,
             contract.Timestamp)

\* addToContractTotals: the same deltas as addToTotals
addToContractTotals(contract, chars) ==
    addToTotals(asTransfer(contract), chars)

\* removeFromContractTotals: the same deltas as removeFromTotals
removeFromContractTotals(contract, chars) ==
    removeFromTotals(asTransfer(contract), chars)

\* ------------------------------------------------------------------ state

VARIABLES
    store,              \* the characters table
    pc,                 \* where each call is: idle, loop, save, done, panicked
    call,               \* the arguments of each Save* call
    pos,                \* the event and participant the event loop is at
    newCharacters,      \* rows bound as new
    updatedCharacters,  \* rows bound as existing
    allCharacters,      \* the IDs bound so far
    failedChars,        \* saveCharacters' failed IDs
    saved,              \* how many rows saveCharacters has attempted
    result,             \* what saveCharacters returned
    attempts,           \* the persistence calls issued, with their outcome
    store0,             \* the table as it was when the call began
    lookups,            \* the GetCharacter calls of each call, and what the
                        \* table held for the character at that moment
    writes,             \* the persistence calls of all callers, in the order
                        \* they were issued
    ledger,             \* SpecLedger: the donations committed and not yet
                        \* expired, and the number of committed batches
    details,            \* SpecDetails: the GetCharDetails call
    trow0,              \* SpecTotals: the row before the accumulator ran
    trow,               \* SpecTotals: the row the accumulator works on
    tlog                \* SpecTotals: the accumulator applications so far

callVars == <<pc, call, pos, newCharacters, updatedCharacters, allCharacters,
              failedChars, saved, result, attempts, store0, lookups, writes>>

totalsVars == <<trow0, trow, tlog>>

\* the variables the Save* calls leave alone
otherVars == <<totalsVars, ledger, details>>

vars == <<store, callVars, otherVars>>

\* ----------------------------------------------------------------- inputs

SeqsUpTo(S, n) == UNION {[1..k -> S] : k \in 0..n}

\* the (amount, timestamp) pairs of the events of a batch
Payloads == {<<12345, 1>>, <<4, 2>>}

DonationEvents ==
    {Donation(d, r, pl[1], pl[2]) : d \in Ids, r \in Ids, pl \in Payloads}

ContractEvents ==
    {Contract(d, r, acc, 12345, 2) : d \in Ids, r \in Ids, acc \in BOOLEAN}

DonationBatches == SeqsUpTo(DonationEvents, MaxBatchLen)

ContractBatches == SeqsUpTo(ContractEvents, MaxBatchLen)

\* the affiliation lists handed to a call: everyone in corporation 10 and
\* no alliance, everyone in corporation 20 of alliance 30, and a list that
\* misses character 2
AffLists ==
    { <<Affiliation(1, 10, NilName), Affiliation(2, 10, NilName)>>,
      <<Affiliation(1, 20, Name(30)), Affiliation(2, 20, Name(30))>>,
      <<Affiliation(1, 10, NilName)>> }

Other(id) == CHOOSE j \in Ids : j # id

\* rows earlier batches leave in the table: the row of a character that
\* donated 12.345 once, and the row of one that received 0.004 once
SeedRows(id) ==
    { addToRow(Donation(id, Other(id), 12345, 1),
               bindAffiliation(id, Affiliation(id, 20, Name(30)),
                               GetCharacter(<<>>, id, "none")).row),
      addToRow(Donation(Other(id), id, 4, 2),
               bindAffiliation(id, Affiliation(id, 10, NilName),
                               GetCharacter(<<>>, id, "none")).row) }

InitStores ==
    UNION { {st \in [S -> UNION {SeedRows(i) : i \in Ids}] :
                \A i \in S : st[i] \in SeedRows(i)} : S \in SUBSET Ids }

NoCall ==
    [kind |-> "none", events |-> <<>>, affiliations |-> <<>>,
     addition |-> FALSE]

NoResult == [returned |-> FALSE, err |-> FALSE, failed |-> <<>>]

InitCalls ==
    /\ pc = [p \in Procs |-> "idle"]
    /\ call = [p \in Procs |-> NoCall]
    /\ pos = [p \in Procs |-> [i |-> 0, j |-> 0]]
    /\ newCharacters = [p \in Procs |-> <<>>]
    /\ updatedCharacters = [p \in Procs |-> <<>>]
    /\ allCharacters = [p \in Procs |-> <<>>]
    /\ failedChars = [p \in Procs |-> <<>>]
    /\ saved = [p \in Procs |-> 0]
    /\ result = [p \in Procs |-> NoResult]
    /\ attempts = [p \in Procs |-> <<>>]
    /\ store0 = [p \in Procs |-> <<>>]
    /\ lookups = [p \in Procs |-> <<>>]
    /\ writes = <<>>

InitTotalsIdle ==
    /\ trow0 = ZeroRow(1)
    /\ trow = ZeroRow(1)
    /\ tlog = <<>>

\* no batch committed yet
NoLedger == [applied |-> <<>>, calls |-> 0]

\* no GetCharDetails call under way
NoDetails ==
    [pc |-> "idle", charID |-> 0, issued |-> <<>>, got |-> <<>>,
     returned |-> FALSE, err |-> "nil", view |-> [nil |-> TRUE]]

InitOtherIdle ==
    /\ InitTotalsIdle
    /\ ledger = NoLedger
    /\ details = NoDetails

Init ==
    /\ store \in InitStores
    /\ InitCalls
    /\ InitOtherIdle

\* ---------------------------------------------------------------- actions

\* the start of a Save* call: the three empty lists
Enter(p, kind, events, affiliations, addition) ==
    /\ pc[p] = "idle"
    /\ pc' = [pc EXCEPT ![p] = "loop"]
    /\ call' = [call EXCEPT ![p] =
                  [kind |-> kind, events |-> events,
                   affiliations |-> affiliations, addition |-> addition]]
    /\ pos' = [pos EXCEPT ![p] = [i |-> 1, j |-> 1]]
    /\ newCharacters' = [newCharacters EXCEPT ![p] = <<>>]
    /\ updatedCharacters' = [updatedCharacters EXCEPT ![p] = <<>>]
    /\ allCharacters' = [allCharacters EXCEPT ![p] = <<>>]
    /\ store0' = [store0 EXCEPT ![p] = store]
    /\ lookups' = [lookups EXCEPT ![p] = <<>>]
    /\ UNCHANGED <<store, failedChars, saved, result, attempts, writes,
                   otherVars>>

SaveCharacterDonations(p) ==
    /\ pc[p] = "idle"
    /\ \E donations \in DonationBatches, affiliations \in AffLists,
          addition \in BOOLEAN :
           Enter(p, "donations", donations, affiliations, addition)

SaveCharacterContracts(p) ==
    /\ pc[p] = "idle"
    /\ \E contracts \in ContractBatches, affiliations \in AffLists,
          addition \in BOOLEAN :
           Enter(p, "contracts", contracts, affiliations, addition)

\* the accumulator a call applies to one of its two lists
applyTotals(kind, addition, ev, chars) ==
    IF kind = "donations"
    THEN IF addition THEN addToTotals(ev, chars)
                     ELSE removeFromTotals(ev, chars)
    ELSE IF addition THEN addToContractTotals(ev, chars)
                     ELSE removeFromContractTotals(ev, chars)

\* the inner loop's pass with a new character inserted as soon as it is
\* bound, before the other participants are looked up
LoopBodyEager(p, ev, charID, fault) ==
    LET c == call[p]
        seen == inInt32(charID, allCharacters[p])
        found == getAffiliation(charID, c.affiliations)
        b == bindAffiliation(charID, found.aff,
                             GetCharacter(store, charID, fault))
        all1 == IF seen THEN allCharacters[p]
                        ELSE Append(allCharacters[p], charID)
        new1 == IF ~seen /\ b.new THEN Append(newCharacters[p], b.row)
                                  ELSE newCharacters[p]
        upd1 == IF ~seen /\ ~b.new THEN Append(updatedCharacters[p], b.row)
                                   ELSE updatedCharacters[p]
        last == pos[p].j = 2
        look == [ID |-> charID, found |-> charID \in DOMAIN store,
                 row |-> IF charID \in DOMAIN store THEN store[charID]
                                                    ELSE ZeroRow(charID),
                 at |-> Len(writes)]
    IN IF ~seen /\ found.panic
       THEN /\ pc' = [pc EXCEPT ![p] = "panicked"]
            /\ allCharacters' = [allCharacters EXCEPT ![p] = all1]
            /\ UNCHANGED <<store, call, pos, newCharacters, updatedCharacters,
                           failedChars, saved, result, attempts, store0,
                           lookups, writes, otherVars>>
       ELSE /\ allCharacters' = [allCharacters EXCEPT ![p] = all1]
            /\ lookups' = [lookups EXCEPT ![p] =
                 IF seen THEN @ ELSE Append(@, look)]
            /\ newCharacters' = [newCharacters EXCEPT ![p] =
                 IF last THEN applyTotals(c.kind, c.addition, ev, new1)
                         ELSE new1]
            /\ updatedCharacters' = [updatedCharacters EXCEPT ![p] =
                 IF last THEN applyTotals(c.kind, c.addition, ev, upd1)
                         ELSE upd1]
            /\ pos' = [pos EXCEPT ![p] =
                 IF last THEN [i |-> @.i + 1, j |-> 1]
                         ELSE [i |-> @.i, j |-> 2]]
            /\ IF ~seen /\ b.new
               THEN LET r == NewCharacter(store, b.row, TRUE)
                    IN /\ store' = r.store
                       /\ attempts' = [attempts EXCEPT ![p] =
                             Append(@, [ID |-> charID, stmt |-> "create",
                                        err |-> r.err, char |-> b.row,
                                        envOK |-> TRUE])]
                       /\ writes' = Append(writes, [p |-> p, ID |-> charID,
                                                    stmt |-> "create"])
               ELSE UNCHANGED <<store, attempts, writes>>
            /\ UNCHANGED <<pc, call, failedChars, saved, result, store0,
                           otherVars>>

\* one pass of the inner loop over an event's two participants, for
\* participant charID; after the second, the accumulator runs
LoopBody(p, ev, charID, fault) ==
    LET c == call[p]
        seen == inInt32(charID, allCharacters[p])
        found == getAffiliation(charID, c.affiliations)
        b == bindAffiliation(charID, found.aff,
                             GetCharacter(store, charID, fault))
        all1 == IF seen THEN allCharacters[p]
                        ELSE Append(allCharacters[p], charID)
        new1 == IF ~seen /\ b.new THEN Append(newCharacters[p], b.row)
                                  ELSE newCharacters[p]
        upd1 == IF ~seen /\ ~b.new THEN Append(updatedCharacters[p], b.row)
                                   ELSE updatedCharacters[p]
        last == pos[p].j = 2
        look == [ID |-> charID, found |-> charID \in DOMAIN store,
                 row |-> IF charID \in DOMAIN store THEN store[charID]
                                                    ELSE ZeroRow(charID),
                 at |-> Len(writes)]
    IN IF ~seen /\ found.panic
       THEN /\ pc' = [pc EXCEPT ![p] = "panicked"]
            /\ allCharacters' = [allCharacters EXCEPT ![p] = all1]
            /\ UNCHANGED <<store, call, pos, newCharacters, updatedCharacters,
                           failedChars, saved, result, attempts, store0,
                           lookups, writes, otherVars>>
       ELSE /\ allCharacters' = [allCharacters EXCEPT ![p] = all1]
            /\ lookups' = [lookups EXCEPT ![p] =
                 IF seen THEN @ ELSE Append(@, look)]
            /\ newCharacters' = [newCharacters EXCEPT ![p] =
                 IF last THEN applyTotals(c.kind, c.addition, ev, new1)
                         ELSE new1]
            /\ updatedCharacters' = [updatedCharacters EXCEPT ![p] =
                 IF last THEN applyTotals(c.kind, c.addition, ev, upd1)
                         ELSE upd1]
            /\ pos' = [pos EXCEPT ![p] =
                 IF last THEN [i |-> @.i + 1, j |-> 1]
                         ELSE [i |-> @.i, j |-> 2]]
            /\ UNCHANGED <<store, pc, call, failedChars, saved, result,
                           attempts, store0, writes, otherVars>>

\* SaveCharacterDonations' loop over the donations
DonationLoop(p) ==
    /\ pc[p] = "loop"
    /\ call[p].kind = "donations"
    /\ pos[p].i <= Len(call[p].events)
    /\ LET donation == call[p].events[pos[p].i]
           charID == IF pos[p].j = 1 THEN donation.Donator
                                     ELSE donation.Recipient
       IN \E fault \in Faults : LoopBody(p, donation, charID, fault)

\* SaveCharacterContracts without its filter: every contract is folded in
skipNothing(contract) == FALSE

\* SaveCharacterContracts' filter: a contract that is not accepted is skipped
skipContract(contract) == ~contract.Accepted

\* SaveCharacterContracts' loop over the contracts
ContractLoop(p) ==
    /\ pc[p] = "loop"
    /\ call[p].kind = "contracts"
    /\ pos[p].i <= Len(call[p].events)
    /\ LET contract == call[p].events[pos[p].i]
           charID == IF pos[p].j = 1 THEN contract.Donator
                                     ELSE contract.Receiver
       IN IF skipContract(contract)
          THEN /\ pos' = [pos EXCEPT ![p] = [i |-> @.i + 1, j |-> 1]]
               /\ UNCHANGED <<store, pc, call, newCharacters,
                              updatedCharacters, allCharacters, failedChars,
                              saved, result, attempts, store0, lookups,
                              writes, otherVars>>
          ELSE \E fault \in Faults : LoopBody(p, contract, charID, fault)

\* the call of saveCharacters once the events are folded in
CallSaveCharacters(p) ==
    /\ pc[p] = "loop"
    /\ pos[p].i > Len(call[p].events)
    /\ pc' = [pc EXCEPT ![p] = "save"]
    /\ failedChars' = [failedChars EXCEPT ![p] = <<>>]
    /\ saved' = [saved EXCEPT ![p] = 0]
    /\ UNCHANGED <<store, call, pos, newCharacters, updatedCharacters,
                   allCharacters, result, attempts, store0, lookups, writes,
                   otherVars>>

\* saveCharacters noting every row it tried, failed or not
noteEveryRow(failed, char, err) == Append(failed, char.ID)

\* saveCharacters' note of a failed row
noteFailure(failed, char, err) ==
    IF err THEN Append(failed, char.ID) ELSE failed

\* saveCharacters' result: an error naming the failed IDs, or nil
saveResult(failed) ==
    IF Len(failed) > 0
    THEN [returned |-> TRUE, err |-> TRUE, failed |-> failed]
    ELSE [returned |-> TRUE, err |-> FALSE, failed |-> <<>>]

\* saveCharacters without its second loop: the updated rows are left out
nextRowNewOnly(new, updated, n) ==
    IF n < Len(new)
    THEN [more |-> TRUE, stmt |-> "create", char |-> new[n + 1]]
    ELSE [more |-> FALSE, stmt |-> "none", char |-> ZeroRow(0)]

\* the row saveCharacters turns to after n attempts: the new rows first,
\* then the updated ones
nextRow(new, updated, n) ==
    IF n < Len(new)
    THEN [more |-> TRUE, stmt |-> "create", char |-> new[n + 1]]
    ELSE IF n < Len(new) + Len(updated)
    THEN [more |-> TRUE, stmt |-> "update", char |-> updated[n - Len(new) + 1]]
    ELSE [more |-> FALSE, stmt |-> "none", char |-> ZeroRow(0)]

\* saveCharacters with an update that goes through only while the table
\* still holds the row the call loaded
SaveRowIfUnchanged(p) ==
    /\ pc[p] = "save"
    /\ LET nx == nextRow(newCharacters[p], updatedCharacters[p], saved[p])
           seen == lookups[p][CHOOSE k \in DOMAIN lookups[p] :
                                  lookups[p][k].ID = nx.char.ID].row
       IN /\ nx.more
          /\ \E envOK \in BOOLEAN :
               LET r == IF nx.stmt = "create"
                        THEN NewCharacter(store, nx.char, envOK)
                        ELSE IF nx.char.ID \in DOMAIN store
                                /\ store[nx.char.ID] # seen
                        THEN [err |-> TRUE, store |-> store]
                        ELSE updateCharacter(store, nx.char, envOK)
               IN /\ store' = r.store
                  /\ failedChars' = [failedChars EXCEPT ![p] =
                                        noteFailure(@, nx.char, r.err)]
                  /\ attempts' = [attempts EXCEPT ![p] =
                        Append(@, [ID |-> nx.char.ID, stmt |-> nx.stmt,
                                   err |-> r.err, char |-> nx.char,
                                   envOK |-> envOK])]
          /\ writes' = Append(writes, [p |-> p, ID |-> nx.char.ID,
                                       stmt |-> nx.stmt])
    /\ saved' = [saved EXCEPT ![p] = @ + 1]
    /\ UNCHANGED <<pc, call, pos, newCharacters, updatedCharacters,
                   allCharacters, result, store0, lookups, otherVars>>

\* one pass of saveCharacters' loops: NewCharacter or updateCharacter
SaveRow(p) ==
    /\ pc[p] = "save"
    /\ LET nx == nextRow(newCharacters[p], updatedCharacters[p], saved[p])
       IN /\ nx.more
          /\ \E envOK \in BOOLEAN :
               LET r == IF nx.stmt = "create"
                        THEN NewCharacter(store, nx.char, envOK)
                        ELSE updateCharacter(store, nx.char, envOK)
               IN /\ store' = r.store
                  /\ failedChars' = [failedChars EXCEPT ![p] =
                                        noteFailure(@, nx.char, r.err)]
                  /\ attempts' = [attempts EXCEPT ![p] =
                        Append(@, [ID |-> nx.char.ID, stmt |-> nx.stmt,
                                   err |-> r.err, char |-> nx.char,
                                   envOK |-> envOK])]
          /\ writes' = Append(writes, [p |-> p, ID |-> nx.char.ID,
                                       stmt |-> nx.stmt])
    /\ saved' = [saved EXCEPT ![p] = @ + 1]
    /\ UNCHANGED <<pc, call, pos, newCharacters, updatedCharacters,
                   allCharacters, result, store0, lookups, otherVars>>

\* saveCharacters' return
SaveReturn(p) ==
    /\ pc[p] = "save"
    /\ ~nextRow(newCharacters[p], updatedCharacters[p], saved[p]).more
    /\ result' = [result EXCEPT ![p] = saveResult(failedChars[p])]
    /\ pc' = [pc EXCEPT ![p] = "done"]
    /\ UNCHANGED <<store, call, pos, newCharacters, updatedCharacters,
                   allCharacters, failedChars, saved, attempts, store0,
                   lookups, writes, otherVars>>

Next ==
    \E p \in Callers :
        \/ SaveCharacterDonations(p)
        \/ SaveCharacterContracts(p)
        \/ DonationLoop(p)
        \/ ContractLoop(p)
        \/ CallSaveCharacters(p)
        \/ SaveRow(p)
        \/ SaveReturn(p)

Spec == Init /\ [][Next]_vars

\* the table before any batch was saved
InitFresh ==
    /\ store = <<>>
    /\ InitCalls
    /\ InitOtherIdle

\* the calls on a table without rows
SpecFresh == InitFresh /\ [][Next]_vars

\* --------------------------------------- the accumulator on a single row

\* the rows the accumulator is tried on: either character, with or without
\* earlier totals, with each timestamp absent, T1 or T2
TestRows ==
    { [ZeroRow(id) EXCEPT
         !.Donated = n, !.Donated30 = n,
         !.DonatedISK = n * 12345, !.DonatedISK30 = n * 12345,
         !.Received = n, !.Received30 = n,
         !.ReceivedISK = n * 4, !.ReceivedISK30 = n * 4,
         !.LastDonated = ld, !.LastReceived = lr] :
      id \in Ids, n \in {0, 1},
      ld \in {NoTime} \cup {NullTime(t, TRUE) : t \in Times},
      lr \in {NoTime} \cup {NullTime(t, TRUE) : t \in Times} }

TotalsEvents ==
    {Donation(d, r, a, t) : d \in Ids, r \in Ids, a \in Amounts, t \in Times}

InitTotals ==
    /\ store = <<>>
    /\ InitCalls
    /\ trow0 \in TestRows
    /\ trow = trow0
    /\ tlog = <<>>
    /\ ledger = NoLedger
    /\ details = NoDetails

\* addToTotals(donation, rows) with the row under test as the only row
ApplyAdd ==
    /\ Len(tlog) < MaxOps
    /\ \E donation \in TotalsEvents :
         /\ trow' = addToTotals(donation, <<trow>>)[1]
         /\ tlog' = Append(tlog, [op |-> "add", ev |-> donation])
    /\ UNCHANGED <<store, callVars, trow0, ledger, details>>

\* removeFromTotals(donation, rows) with the row under test as the only row
ApplyRemove ==
    /\ Len(tlog) < MaxOps
    /\ \E donation \in TotalsEvents :
         /\ trow' = removeFromTotals(donation, <<trow>>)[1]
         /\ tlog' = Append(tlog, [op |-> "remove", ev |-> donation])
    /\ UNCHANGED <<store, callVars, trow0, ledger, details>>

NextTotals == ApplyAdd \/ ApplyRemove

SpecTotals == InitTotals /\ [][NextTotals]_vars

\* ------------------------------------------- batches one after the other

\* the donations of the batches that follow one another: each character to
\* each, itself included
LedgerEvents == {Donation(d, r, 12345, 1) : d \in Ids, r \in Ids}

\* the batches that follow one another: no, one or two donations
LedgerBatches ==
    {<<>>} \cup {<<e>> : e \in LedgerEvents}
           \cup {<<e, f>> : e \in LedgerEvents, f \in LedgerEvents}

LedgerAffs == <<Affiliation(1, 10, NilName), Affiliation(2, 10, NilName)>>

\* how often donation e occurs in the batch
Occurrences(batch, e) == Cardinality({k \in DOMAIN batch : batch[k] = e})

\* every donation of the batch is one that was committed additively and has
\* not been taken out since, each counted once
Matched(batch) ==
    \A e \in LedgerEvents : Occurrences(batch, e) <= ledger.applied[e]

InitLedger ==
    /\ store = <<>>
    /\ InitCalls
    /\ InitTotalsIdle
    /\ ledger = [applied |-> [e \in LedgerEvents |-> 0], calls |-> 0]
    /\ details = NoDetails

\* SaveCharacterDonations(donations, affiliations, true) on new donations
LedgerAdd(p) ==
    /\ pc[p] = "idle"
    /\ ledger.calls < MaxCalls
    /\ \E donations \in LedgerBatches :
         Enter(p, "donations", donations, LedgerAffs, TRUE)

\* SaveCharacterDonations(donations, affiliations, false) on donations that
\* left the 30-day window
LedgerExpire(p) ==
    /\ pc[p] = "idle"
    /\ ledger.calls < MaxCalls
    /\ \E donations \in LedgerBatches :
         /\ Matched(donations)
         /\ Enter(p, "donations", donations, LedgerAffs, FALSE)

\* the caller takes the nil result of a batch and turns to the next one
LedgerCommit(p) ==
    /\ pc[p] = "done"
    /\ ~result[p].err
    /\ ledger' =
         [applied |->
              [e \in LedgerEvents |->
                  IF call[p].addition
                  THEN ledger.applied[e] + Occurrences(call[p].events, e)
                  ELSE ledger.applied[e] - Occurrences(call[p].events, e)],
          calls |-> ledger.calls + 1]
    /\ pc' = [pc EXCEPT ![p] = "idle"]
    /\ call' = [call EXCEPT ![p] = NoCall]
    /\ pos' = [pos EXCEPT ![p] = [i |-> 0, j |-> 0]]
    /\ newCharacters' = [newCharacters EXCEPT ![p] = <<>>]
    /\ updatedCharacters' = [updatedCharacters EXCEPT ![p] = <<>>]
    /\ allCharacters' = [allCharacters EXCEPT ![p] = <<>>]
    /\ failedChars' = [failedChars EXCEPT ![p] = <<>>]
    /\ saved' = [saved EXCEPT ![p] = 0]
    /\ result' = [result EXCEPT ![p] = NoResult]
    /\ attempts' = [attempts EXCEPT ![p] = <<>>]
    /\ store0' = [store0 EXCEPT ![p] = <<>>]
    /\ lookups' = [lookups EXCEPT ![p] = <<>>]
    /\ writes' = <<>>
    /\ UNCHANGED <<store, totalsVars, details>>

NextLedger ==
    \E p \in Callers :
        \/ LedgerAdd(p)
        \/ LedgerExpire(p)
        \/ DonationLoop(p)
        \/ CallSaveCharacters(p)
        \/ SaveRow(p)
        \/ SaveReturn(p)
        \/ LedgerCommit(p)

\* batches saved one after the other, each begun when the one before it
\* returned nil, on a table that starts empty
SpecLedger == InitLedger /\ [][NextLedger]_vars

\* ------------------------------------------------ batches that overlap

\* the donations of the calls that overlap: one in each direction and one
\* of a character to itself
OverlapEvents ==
    {Donation(1, 2, 12345, 1), Donation(2, 1, 4, 2), Donation(1, 1, 4, 2)}

\* the table the overlapping calls find: character 1 has donated once,
\* character 2 has received once
InitOverlap ==
    /\ store \in {st \in InitStores :
                     /\ DOMAIN st = Ids
                     /\ st[1].Donated = 1
                     /\ st[2].Received = 1}
    /\ InitCalls
    /\ InitOtherIdle

\* SaveCharacterDonations on a batch of one donation
OverlapStart(p) ==
    /\ pc[p] = "idle"
    /\ \E donation \in OverlapEvents, addition \in BOOLEAN :
         Enter(p, "donations", <<donation>>, LedgerAffs, addition)

NextOverlap ==
    \E p \in Procs :
        \/ OverlapStart(p)
        \/ DonationLoop(p)
        \/ CallSaveCharacters(p)
        \/ SaveRow(p)
        \/ SaveReturn(p)

\* two calls of SaveCharacterDonations whose steps interleave freely
SpecOverlap == InitOverlap /\ [][NextOverlap]_vars

\* ------------------------------------- a batch and the standing's keeper

\* SaveCharacter(ctx, char): the update of the character's row
SaveCharacter(char, envOK) ==
    /\ store' = updateCharacter(store, toRow(char), envOK).store
    /\ UNCHANGED <<callVars, otherVars>>

\* the collaborator that keeps the standing: it reads a character, sets
\* the flag and saves the character
SetStanding ==
    \E i \in DOMAIN store, standing \in BOOLEAN, envOK \in BOOLEAN :
        LET char == GetCharacter(store, i, "none").char
        IN SaveCharacter([char EXCEPT !.GoodStanding = standing], envOK)

NextStanding ==
    \/ SetStanding
    \/ \E p \in Callers :
          \/ OverlapStart(p)
          \/ DonationLoop(p)
          \/ CallSaveCharacters(p)
          \/ SaveRow(p)
          \/ SaveReturn(p)

\* one call of SaveCharacterDonations, with the collaborator saving
\* characters at any moment before, during and after it
SpecStanding == Init /\ [][NextStanding]_vars

\* ------------------------------------------------------- GetCharDetails

\* GetCharDetails' five fetches, in the order it issues them
SubFetches ==
    <<"GetCharacter", "getCharContracts", "getCharContracted",
      "GetCharDonations", "GetCharDonated">>

\* what a fetch from the history store can return: nothing or one entry
Histories(charID) ==
    {<<>>, <<Donation(charID, Other(charID), 12345, 1)>>}

\* the outcomes of fetch n for the character: an error, or a value
Outcomes(st, charID, n) ==
    IF n = 1
    THEN {[err |-> g.err, value |-> g.char] :
             g \in {GetCharacter(st, charID, f) : f \in Faults}}
    ELSE {[err |-> TRUE, value |-> <<>>]}
            \cup {[err |-> FALSE, value |-> h] : h \in Histories(charID)}

\* &CharDetails{...} from the five values fetched
CharDetails(got) ==
    [nil |-> FALSE, Character |-> got[1], Contracts |-> got[2],
     Contracted |-> got[3], Donations |-> got[4], Donated |-> got[5]]

\* GetCharDetails that goes on with an empty history when a history fetch
\* fails
fetchedLenient(d, out) ==
    LET n == Len(d.issued) + 1
        failed == out.err /\ n = 1
        issued1 == Append(d.issued, [name |-> SubFetches[n], err |-> out.err])
        got1 == Append(d.got, out.value)
    IN IF failed
       THEN [d EXCEPT !.pc = "done", !.issued = issued1, !.returned = TRUE,
                      !.err = SubFetches[n]]
       ELSE IF n = Len(SubFetches)
       THEN [d EXCEPT !.pc = "done", !.issued = issued1, !.got = got1,
                      !.returned = TRUE, !.view = CharDetails(got1)]
       ELSE [d EXCEPT !.issued = issued1, !.got = got1]

\* GetCharDetails after a fetch came back with outcome out: return the
\* error, or keep the value and, after the fifth, return the details
fetched(d, out) ==
    LET n == Len(d.issued) + 1
        issued1 == Append(d.issued, [name |-> SubFetches[n], err |-> out.err])
        got1 == Append(d.got, out.value)
    IN IF out.err
       THEN [d EXCEPT !.pc = "done", !.issued = issued1, !.returned = TRUE,
                      !.err = SubFetches[n]]
       ELSE IF n = Len(SubFetches)
       THEN [d EXCEPT !.pc = "done", !.issued = issued1, !.got = got1,
                      !.returned = TRUE, !.view = CharDetails(got1)]
       ELSE [d EXCEPT !.issued = issued1, !.got = got1]

\* the call GetCharDetails(ctx, charID)
GetCharDetails ==
    /\ details.pc = "idle"
    /\ \E charID \in Ids :
         details' = [details EXCEPT !.pc = "fetch", !.charID = charID]
    /\ UNCHANGED <<store, callVars, totalsVars, ledger>>

\* the next fetch of GetCharDetails and what follows from its outcome
SubFetch ==
    /\ details.pc = "fetch"
    /\ \E out \in Outcomes(store, details.charID, Len(details.issued) + 1) :
         details' = fetched(details, out)
    /\ UNCHANGED <<store, callVars, totalsVars, ledger>>

NextDetails == GetCharDetails \/ SubFetch

SpecDetails == Init /\ [][NextDetails]_vars

\* ----------------------------------------------------------------- claims

\* the row of character i in table st; a zero row when it has none
RowOf(st, i) == IF i \in DOMAIN st THEN st[i] ELSE ZeroRow(i)

\* how many of the events have character i in the given role
CountRole(events, i, role) ==
    Cardinality({k \in 1..Len(events) : events[k][role] = i})

RECURSIVE SumRole(_, _, _, _)
\* the sum of the amounts of the first k events with character i in the role
SumRole(events, i, role, k) ==
    IF k = 0 THEN 0
    ELSE SumRole(events, i, role, k - 1)
         + (IF events[k][role] = i THEN events[k].Amount ELSE 0)

\* the characters a donation batch refers to
Participants(events) ==
    {events[k].Donator : k \in 1..Len(events)}
        \cup {events[k].Recipient : k \in 1..Len(events)}

\* the in-memory rows of a call, new ones first
Rows(p) == newCharacters[p] \o updatedCharacters[p]

\* an additive donation call that returned nil
AdditiveDone(p) ==
    /\ pc[p] = "done"
    /\ call[p].kind = "donations"
    /\ call[p].addition
    /\ ~result[p].err

\* C1: after an additive SaveCharacterDonations that returns no error, the
\* stored row of every character has donated and donated30 raised by the
\* number of the batch's events it donated, donatedValue and donatedValue30
\* by the sum of their amounts, and the received fields raised likewise by
\* the events it received, whoever the donator and the recipient of each
\* event are.
C1_AdditiveBatchTotals ==
    \A p \in Procs :
        AdditiveDone(p) =>
            \A i \in Ids :
                LET evs == call[p].events
                    was == RowOf(store0[p], i)
                    now == RowOf(store, i)
                    nd == CountRole(evs, i, "Donator")
                    sd == SumRole(evs, i, "Donator", Len(evs))
                    nr == CountRole(evs, i, "Recipient")
                    sr == SumRole(evs, i, "Recipient", Len(evs))
                IN /\ now.Donated = was.Donated + nd
                   /\ now.Donated30 = was.Donated30 + nd
                   /\ now.DonatedISK = was.DonatedISK + sd
                   /\ now.DonatedISK30 = was.DonatedISK30 + sd
                   /\ now.Received = was.Received + nr
                   /\ now.Received30 = was.Received30 + nr
                   /\ now.ReceivedISK = was.ReceivedISK + sr
                   /\ now.ReceivedISK30 = was.ReceivedISK30 + sr

\* C2: an event applied with addToTotals and then removeFromTotals to a row
\* of its donator or its recipient leaves the row's 30 day count and value
\* as they were, and the lifetime count and value at start + 1 and
\* start + amount.
C2_AddThenRemove ==
    (/\ Len(tlog) = 2
     /\ tlog[1].op = "add"
     /\ tlog[2].op = "remove"
     /\ tlog[1].ev = tlog[2].ev) =>
        LET e == tlog[1].ev
        IN /\ trow0.ID = e.Donator =>
                /\ trow.Donated30 = trow0.Donated30
                /\ trow.DonatedISK30 = trow0.DonatedISK30
                /\ trow.Donated = trow0.Donated + 1
                /\ trow.DonatedISK = trow0.DonatedISK + e.Amount
           /\ trow0.ID = e.Recipient =>
                /\ trow.Received30 = trow0.Received30
                /\ trow.ReceivedISK30 = trow0.ReceivedISK30
                /\ trow.Received = trow0.Received + 1
                /\ trow.ReceivedISK = trow0.ReceivedISK + e.Amount

\* the IDs of the persistence calls of a call that failed, in order
FailedAttempts(p) ==
    LET bad == SelectSeq(attempts[p], LAMBDA a : a.err)
    IN [k \in 1..Len(bad) |-> bad[k].ID]

\* C3: saveCharacters' error names exactly the characters whose insert or
\* update failed, in the order they failed; every row whose write succeeded
\* is in the table, so that a read of it gives the written totals; and the
\* result is nil exactly when no write failed.
C3_PartialFailure ==
    \A p \in Procs :
        pc[p] = "done" =>
            /\ result[p].returned
            /\ result[p].failed = FailedAttempts(p)
            /\ result[p].err <=> (\E k \in 1..Len(attempts[p]) :
                                      attempts[p][k].err)
            /\ \A k \in 1..Len(attempts[p]) :
                   LET a == attempts[p][k]
                       read == GetCharacter(store, a.ID, "none")
                   IN ~a.err =>
                         /\ a.ID \in DOMAIN store
                         /\ store[a.ID] = a.char
                         /\ ~read.err
                         /\ read.char = toCharacter(a.char)

\* a call in which one row failed to save and a later or earlier one was
\* saved
C3_Witness ==
    \E p \in Procs :
        /\ pc[p] = "done"
        /\ \E k \in 1..Len(attempts[p]) : attempts[p][k].err
        /\ \E k \in 1..Len(attempts[p]) :
              /\ ~attempts[p][k].err
              /\ attempts[p][k].stmt = "update"

\* the IDs of a list of rows
IdsOf(rows) == [k \in 1..Len(rows) |-> rows[k].ID]

\* C4: once the events of a donation batch that refers to N characters, K
\* of them with a row in the table, are bound, the updated list holds K
\* rows and the new list N - K, and every participant is in exactly one of
\* the lists, once.
C4_Partition ==
    \A p \in Procs :
        (pc[p] \in {"save", "done"} /\ call[p].kind = "donations") =>
            LET parts == Participants(call[p].events)
                K == Cardinality(parts \cap DOMAIN store0[p])
                N == Cardinality(parts)
                ids == IdsOf(Rows(p))
            IN /\ Len(updatedCharacters[p]) = K
               /\ Len(newCharacters[p]) = N - K
               /\ \A i \in parts :
                     Cardinality({k \in 1..Len(ids) : ids[k] = i}) = 1

\* C5: rounding never feeds the accumulator: a character whose stored
\* donated value is v and that an additive donation batch updates has
\* afterwards v plus the amounts it donated in the batch, lifetime and 30
\* day, and not round2(v) plus them.
C5_UnroundedAccumulator ==
    \A p \in Procs :
        AdditiveDone(p) =>
            \A i \in DOMAIN store0[p] :
                LET evs == call[p].events
                    sd == SumRole(evs, i, "Donator", Len(evs))
                IN /\ store[i].DonatedISK = store0[p][i].DonatedISK + sd
                   /\ store[i].DonatedISK30 = store0[p][i].DonatedISK30 + sd

\* C6: the lifetime counters of a stored row never decrease: no step takes
\* received, donated, receivedValue or donatedValue of a row below what the
\* table held.
C6_LifetimeMonotonic ==
    [][\A i \in DOMAIN store :
          /\ i \in DOMAIN store'
          /\ store'[i].Received >= store[i].Received
          /\ store'[i].Donated >= store[i].Donated
          /\ store'[i].ReceivedISK >= store[i].ReceivedISK
          /\ store'[i].DonatedISK >= store[i].DonatedISK]_vars

\* the later of two timestamps
Later(a, b) == IF a < b THEN b ELSE a

\* two events with different timestamps were added to the row under test
TwoAdds ==
    /\ Len(tlog) = 2
    /\ tlog[1].op = "add"
    /\ tlog[2].op = "add"
    /\ tlog[1].ev.Timestamp # tlog[2].ev.Timestamp

\* C7: two events with timestamps T1 < T2 added, in either order, to the
\* row of the character that donated both leave lastDonated = T2, and added
\* to the row of the character that received both leave lastReceived = T2
\* (the row held no later timestamp before).
C7_LastTimestamp ==
    TwoAdds =>
        LET e1 == tlog[1].ev
            e2 == tlog[2].ev
            T2 == Later(e1.Timestamp, e2.Timestamp)
        IN /\ (/\ e1.Donator = trow0.ID
               /\ e2.Donator = trow0.ID
               /\ trow0.LastDonated.Time <= T2) =>
                  trow.LastDonated = NullTime(T2, TRUE)
           /\ (/\ e1.Recipient = trow0.ID
               /\ e2.Recipient = trow0.ID
               /\ trow0.LastReceived.Time <= T2) =>
                  trow.LastReceived = NullTime(T2, TRUE)

\* the accepted contracts among the first n of a batch in which character
\* i has the role
AcceptedAs(events, n, i, role) ==
    {k \in 1..n : events[k].Accepted /\ events[k][role] = i}

\* C8: a contract that is not accepted is a no-op in either mode: a
\* character that only takes part in unaccepted contracts of a batch is
\* never bound, its row is never inserted or updated and stays as it was,
\* and the 30 day count of a bound donator moves only by the accepted
\* contracts folded in so far.
C8_UnacceptedNoOp ==
    \A p \in Procs :
        call[p].kind = "contracts" =>
            LET evs == call[p].events
                n == Len(evs)
                done == IF pos[p].i - 1 < n THEN pos[p].i - 1 ELSE n
                sign == IF call[p].addition THEN 1 ELSE 0 - 1
            IN /\ \A i \in Ids :
                    (AcceptedAs(evs, n, i, "Donator") = {}
                     /\ AcceptedAs(evs, n, i, "Receiver") = {}) =>
                        /\ ~inInt32(i, allCharacters[p])
                        /\ \A k \in 1..Len(attempts[p]) :
                              attempts[p][k].ID # i
                        /\ RowOf(store, i) = RowOf(store0[p], i)
                        /\ (i \in DOMAIN store) = (i \in DOMAIN store0[p])
               /\ \A k \in 1..Len(newCharacters[p]) :
                    LET r == newCharacters[p][k]
                    IN r.Donated30 =
                         sign * Cardinality(
                                  AcceptedAs(evs, done, r.ID, "Donator"))
               /\ \A k \in 1..Len(updatedCharacters[p]) :
                    LET r == updatedCharacters[p][k]
                    IN r.Donated30 =
                         store0[p][r.ID].Donated30
                         + sign * Cardinality(
                                    AcceptedAs(evs, done, r.ID, "Donator"))

\* a finished contract batch that saved a row, with an unaccepted contract
\* of a character that has a row and takes part in nothing else
C8_Witness ==
    \E p \in Procs :
        /\ pc[p] = "done"
        /\ call[p].kind = "contracts"
        /\ \E k \in 1..Len(attempts[p]) : ~attempts[p][k].err
        /\ \E k \in 1..Len(call[p].events) :
              LET c == call[p].events[k]
              IN /\ ~c.Accepted
                 /\ c.Receiver \in DOMAIN store0[p]
                 /\ ~inInt32(c.Receiver, allCharacters[p])

\* the characters the affiliations of a call are for
Affiliated(p) ==
    {call[p].affiliations[k].Character : k \in 1..Len(call[p].affiliations)}

\* the events of a batch with a participant that has no affiliation
Unaffiliated(p) ==
    {k \in 1..Len(call[p].events) :
        \/ call[p].events[k].Donator \notin Affiliated(p)
        \/ call[p].events[k].Recipient \notin Affiliated(p)}

\* C9: a donation batch with an event whose participant has no affiliation
\* aborts at the first such event: it never reaches saveCharacters, and no
\* row, the rows earlier events touched included, is inserted or updated.
C9_MissingAffiliationAborts ==
    \A p \in Procs :
        call[p].kind = "donations" =>
            /\ (Unaffiliated(p) # {} /\ pc[p] = "loop") =>
                   pos[p].i <= Min(Unaffiliated(p))
            /\ pc[p] \in {"save", "done"} => Unaffiliated(p) = {}
            /\ pc[p] = "panicked" =>
                   /\ Unaffiliated(p) # {}
                   /\ pos[p].i = Min(Unaffiliated(p))
                   /\ attempts[p] = <<>>
                   /\ store = store0[p]

\* a batch that aborted after an earlier event had touched rows
C9_Witness ==
    \E p \in Procs :
        /\ pc[p] = "panicked"
        /\ call[p].kind = "donations"
        /\ pos[p].i = 2
        /\ Len(updatedCharacters[p]) > 0

\* C10: every row bound by bindAffiliation, new or existing, has the
\* corporation of the character's affiliation and the alliance of that
\* affiliation, 0 when the affiliation has none.
C10_AffiliationIsCurrent ==
    \A p \in Procs :
        \A k \in 1..Len(Rows(p)) :
            LET r == Rows(p)[k]
                aff == getAffiliation(r.ID, call[p].affiliations).aff
            IN /\ r.CorporationID = aff.Corporation
               /\ r.AllianceID = IF aff.Alliance.nil THEN 0
                                                      ELSE aff.Alliance.ID

\* C11: a character is bound as new exactly when the table held no row for
\* it at the moment of its lookup: whoever has a row is bound as existing
\* and saved by update, whatever else goes wrong during the lookup
C11_NewOnlyWhenAbsent ==
    \A p \in Procs :
        \A k \in DOMAIN lookups[p] :
            LET l == lookups[p][k]
            IN /\ (\E n \in DOMAIN newCharacters[p] :
                      newCharacters[p][n].ID = l.ID) <=> ~l.found
               /\ \A n \in DOMAIN attempts[p] :
                     attempts[p][n].ID = l.ID /\ l.found
                         => attempts[p][n].stmt = "update"

\* C12: while every batch so far was committed whole, one after the other,
\* and every subtracted donation matches one added before and not subtracted
\* since, every row of the table has received >= received30 >= 0 and
\* donated >= donated30 >= 0
C12_WindowWithinLifetime ==
    \A i \in DOMAIN store :
        /\ store[i].Received >= store[i].Received30
        /\ store[i].Received30 >= 0
        /\ store[i].Donated >= store[i].Donated30
        /\ store[i].Donated30 >= 0

\* a subtractive batch has been committed after the additive batch whose
\* donations it takes out again, and a row is back at an empty window
C12_Witness ==
    /\ ledger.calls = MaxCalls
    /\ \E i \in DOMAIN store :
         /\ store[i].Donated >= 1
         /\ store[i].Donated30 = 0

\* the lookup of character i by call p: it found the row
Loaded(p, i) ==
    \E k \in DOMAIN lookups[p] : lookups[p][k].ID = i /\ lookups[p][k].found

LoadOf(p, i) ==
    lookups[p][CHOOSE k \in DOMAIN lookups[p] : lookups[p][k].ID = i]

\* call p issued an update of character i while the store was reachable
Updated(p, i) ==
    \E n \in DOMAIN attempts[p] :
        /\ attempts[p][n].ID = i
        /\ attempts[p][n].stmt = "update"
        /\ attempts[p][n].envOK

UpdateOf(p, i) ==
    attempts[p][CHOOSE n \in DOMAIN attempts[p] : attempts[p][n].ID = i]

\* the place of call p's write of character i among all writes
WriteAt(p, i) ==
    CHOOSE w \in DOMAIN writes : writes[w].p = p /\ writes[w].ID = i

\* how many donations of call p have character i as donator or recipient
Touches(p, i) ==
    Cardinality({k \in DOMAIN call[p].events :
                    \/ call[p].events[k].Donator = i
                    \/ call[p].events[k].Recipient = i})

\* calls p and q both loaded the row of character i before either of them
\* wrote it, both updated it, and q's update was issued last
LostUpdate(p, q, i) ==
    /\ p # q
    /\ pc[p] = "done" /\ pc[q] = "done"
    /\ Loaded(p, i) /\ Loaded(q, i)
    /\ Updated(p, i) /\ Updated(q, i)
    /\ LoadOf(p, i).at < WriteAt(p, i)
    /\ LoadOf(q, i).at < WriteAt(p, i)
    /\ WriteAt(p, i) < WriteAt(q, i)

\* C13: when two batches load the row of the same character before either
\* writes it, both updates go through, the stored row is the in-memory row
\* of the batch whose update was issued last, and its window counts differ
\* from the loaded ones by that batch's donations only
C13_LastUpdateWins ==
    \A p \in Procs, q \in Procs, i \in Ids :
        LostUpdate(p, q, i) =>
            /\ ~UpdateOf(p, i).err
            /\ ~UpdateOf(q, i).err
            /\ store[i] = UpdateOf(q, i).char
            /\ (store[i].Donated30 + store[i].Received30)
                 - (LoadOf(q, i).row.Donated30 + LoadOf(q, i).row.Received30)
               = (IF call[q].addition THEN 1 ELSE -1) * Touches(q, i)

\* a lost update: both batches have committed and the first one's donation
\* is missing from the stored row
C13_Witness ==
    \E p \in Procs, q \in Procs, i \in Ids :
        /\ LostUpdate(p, q, i)
        /\ ~result[p].err /\ ~result[q].err
        /\ Touches(p, i) = 1 /\ Touches(q, i) = 1
        /\ call[p].addition /\ call[q].addition

\* the step is a persistence call of a batch
BatchWrites == Len(writes') = Len(writes) + 1

\* C14: a persistence call of a donation batch leaves the goodStanding of
\* every row of the table as it is, also when the collaborator has set it
\* after the batch loaded the row
C14_StandingPreserved ==
    [][BatchWrites =>
          \A i \in DOMAIN store :
              store'[i].GoodStanding = store[i].GoodStanding]_vars

\* C14, for updates as they are issued: an update a batch gets through
\* stores the goodStanding the
\* row had when the batch loaded it, and no persistence call of a batch
\* changes the goodStanding of another row
C14_StandingAsLoaded ==
    [][BatchWrites =>
          LET w == writes'[Len(writes')]
              a == attempts'[w.p][Len(attempts'[w.p])]
          IN \A i \in DOMAIN store :
                store'[i].GoodStanding =
                    IF i = w.ID /\ a.stmt = "update" /\ ~a.err
                    THEN LoadOf(w.p, i).row.GoodStanding
                    ELSE store[i].GoodStanding]_vars

\* a batch has updated a row that was in good standing when it loaded it
C14_Witness ==
    \E p \in Callers, i \in DOMAIN store :
        /\ Loaded(p, i)
        /\ LoadOf(p, i).row.GoodStanding
        /\ Updated(p, i)
        /\ ~UpdateOf(p, i).err
        /\ store[i] = UpdateOf(p, i).char

\* the fields removeFromTotals has no business with are the same in rows
\* a and b
SameButWindow(a, b) ==
    /\ a.ID = b.ID
    /\ a.CorporationID = b.CorporationID /\ a.AllianceID = b.AllianceID
    /\ a.Received = b.Received /\ a.ReceivedISK = b.ReceivedISK
    /\ a.Donated = b.Donated /\ a.DonatedISK = b.DonatedISK
    /\ a.LastDonated = b.LastDonated /\ a.LastReceived = b.LastReceived
    /\ a.GoodStanding = b.GoodStanding

\* row b is row a with donation ev taken out of the 30-day fields of each
\* side the row has in ev, and nothing else changed
TakenOut(ev, a, b) ==
    /\ SameButWindow(a, b)
    /\ b.Donated30 = a.Donated30 - (IF a.ID = ev.Donator THEN 1 ELSE 0)
    /\ b.DonatedISK30 =
         a.DonatedISK30 - (IF a.ID = ev.Donator THEN ev.Amount ELSE 0)
    /\ b.Received30 = a.Received30 - (IF a.ID = ev.Recipient THEN 1 ELSE 0)
    /\ b.ReceivedISK30 =
         a.ReceivedISK30 - (IF a.ID = ev.Recipient THEN ev.Amount ELSE 0)

\* C15: removeFromTotals lowers the 30-day count by 1 and the 30-day value
\* by the amount on the donated side of the donator's row and on the
\* received side of the recipient's row, and leaves every other field of
\* those rows and every field of any other row as it was
C15_RemoveFrame ==
    [][(Len(tlog') = Len(tlog) + 1 /\ tlog'[Len(tlog')].op = "remove")
          => TakenOut(tlog'[Len(tlog')].ev, trow, trow')]_vars

\* C16: once a call has issued its first insert or update it looks up and
\* binds no character any more and changes no row in memory: the lookups,
\* the two lists and the rows in them stay as they are
C16_BindBeforeWrite ==
    [][\A p \in Procs :
          attempts[p] # <<>> =>
              /\ lookups'[p] = lookups[p]
              /\ allCharacters'[p] = allCharacters[p]
              /\ newCharacters'[p] = newCharacters[p]
              /\ updatedCharacters'[p] = updatedCharacters[p]]_vars

\* a call that looked up two characters, bound one as new and one as
\* existing, and has issued both writes
C16_Witness ==
    \E p \in Procs :
        /\ Len(lookups[p]) = 2
        /\ Len(newCharacters[p]) = 1
        /\ Len(updatedCharacters[p]) = 1
        /\ Len(attempts[p]) = 2

\* the persistence call saveCharacters owes row n of its two lists, the
\* new rows counted first
Owed(p, n) ==
    IF n <= Len(newCharacters[p])
    THEN [stmt |-> "create", char |-> newCharacters[p][n]]
    ELSE [stmt |-> "update",
          char |-> updatedCharacters[p][n - Len(newCharacters[p])]]

\* C17: the persistence calls saveCharacters has issued are, in order, one
\* insert for each new row and then one update for each existing row, each
\* row once, whether or not an earlier call failed; while rows are left it
\* can issue the next call, after the last it can return, and it has
\* returned a result only when every row had its call
C17_OneAttemptPerRow ==
    \A p \in Procs :
        LET total == Len(newCharacters[p]) + Len(updatedCharacters[p])
        IN pc[p] \in {"save", "done"} =>
            /\ Len(attempts[p]) <= total
            /\ \A n \in DOMAIN attempts[p] :
                  /\ attempts[p][n].stmt = Owed(p, n).stmt
                  /\ attempts[p][n].char = Owed(p, n).char
            /\ pc[p] = "save" /\ Len(attempts[p]) < total
                  => ENABLED SaveRow(p)
            /\ pc[p] = "save" /\ Len(attempts[p]) = total
                  => ENABLED SaveReturn(p)
            /\ pc[p] = "done"
                  => Len(attempts[p]) = total /\ result[p].returned

\* saveCharacters has returned after an insert that failed and the update
\* that came after it
C17_Witness ==
    \E p \in Procs :
        /\ pc[p] = "done"
        /\ Len(attempts[p]) = 2
        /\ attempts[p][1].stmt = "create" /\ attempts[p][1].err
        /\ attempts[p][2].stmt = "update" /\ ~attempts[p][2].err

\* C18: GetCharDetails issues its fetches in order and none after one that
\* failed; it returns the error of the failed fetch and no details when a
\* fetch failed, and details, made of the five values, only when all five
\* fetches came back without error
C18_AllOrNothing ==
    LET d == details
        failed == {k \in DOMAIN d.issued : d.issued[k].err}
    IN /\ Len(d.issued) <= Len(SubFetches)
       /\ \A k \in DOMAIN d.issued : d.issued[k].name = SubFetches[k]
       /\ \A k \in failed : k = Len(d.issued) /\ d.returned
       /\ d.returned =>
            IF failed # {}
            THEN /\ d.view.nil
                 /\ d.err = d.issued[Len(d.issued)].name
            ELSE /\ Len(d.issued) = Len(SubFetches)
                 /\ d.err = "nil"
                 /\ d.view = CharDetails(d.got)
                 /\ d.view.Character.ID = d.charID
       /\ ~d.returned => d.view.nil /\ d.err = "nil"

\* GetCharDetails has returned the error of its fourth fetch, after three
\* fetches that went through
C18_Witness ==
    /\ details.returned
    /\ Len(details.issued) = 4
    /\ details.err = "GetCharDonations"
    /\ details.view.nil

====
